---- MODULE Spec2Model ----
(***************************************************************************)
(* Model of decode_trace.py: run-length building (read_trace), quantum     *)
(* estimation and bit expansion (build_bitvector), frame extraction and    *)
(* verification (extract_and_verify) and the per-trace loop of main.       *)
(*                                                                         *)
(* Time is counted in integer ticks (one tick = 0.5 ms in the concrete     *)
(* scenario), so durations, quotients and ties of round() are exact, as    *)
(* they are in the program on integer-valued timestamps; a level is 0 or   *)
(* 1; a bitvector is a sequence of levels.                                 *)
(* Indices into a bitvector are 0-based as in the source: bit i of bv is   *)
(* bv[i + 1].                                                              *)
(***************************************************************************)
EXTENDS Integers, Sequences, FiniteSets, TLC

VARIABLES
    traces,           \* args.traces: the names of the trace files, in order
    t,                \* index (1-based) of the trace main is processing
    pc,               \* position of the running function
    runs,             \* main: runs (also the input of build_bitvector)
    whole_bitvector,  \* main: whole_bitvector (also the input of extract_and_verify)
    T0,               \* main: T0
    frame,            \* main: frame (Unbound until first assigned)
    count,            \* main: count
    positions,        \* main: positions
    trace_errors,     \* main: trace_errors
    written,          \* the .frame files written: <<trace, frame>>
    reported,         \* the "Frame (length ..) found .. times" lines printed
    samples,          \* the (time, level) rows read_trace parsed
    min_idle,         \* extract_and_verify: min_idle
    res,              \* the result (return value or exception) of the last call
    synth,            \* parameters of the synthetic input under test
    scan              \* extract_and_verify run step by step: its locals

vars == <<traces, t, pc, runs, whole_bitvector, T0, frame, count, positions,
          trace_errors, written, reported, samples, min_idle, res, synth,
          scan>>

-----------------------------------------------------------------------------
(* Program constants *)

DefaultMinIdle == 20
TrimFactor == 20
MinFrameLen == 30
MaxFrameLen == 34
ShortLimit == 3
MinCount == 5

Unbound == <<-1>>          \* a local variable that was never assigned
NoRes == [kind |-> "none"]
NoScan == [kind |-> "none"]    \* no extract_and_verify is running step by step

-----------------------------------------------------------------------------
(* Helpers *)

Rep(v, n) == [j \in 1..n |-> v]

Min(S) == CHOOSE x \in S : \A y \in S : x <= y

\* Python's bv[a:b] for 0 <= a <= b <= len(bv)
Slice(bv, a, b) == SubSeq(bv, a + 1, b)

\* Python's round(d / q) for integers d >= 0, q > 0: round half to even
Round(d, q) ==
    LET k == d \div q
        r == d % q
    IN  IF 2 * r < q THEN k
        ELSE IF 2 * r > q THEN k + 1
        ELSE IF k % 2 = 0 THEN k ELSE k + 1

-----------------------------------------------------------------------------
(* read_trace, lines 19-31 *)

RECURSIVE TransitionsFrom(_, _, _)
TransitionsFrom(smp, i, acc) ==
    IF i > Len(smp) THEN acc
    ELSE IF smp[i][2] # acc[Len(acc)][2]
         THEN TransitionsFrom(smp, i + 1, Append(acc, smp[i]))
         ELSE TransitionsFrom(smp, i + 1, acc)

Transitions(smp) == TransitionsFrom(smp, 2, <<smp[1]>>)

\* line 31 measuring the final run from the first row instead of from the
\* last transition
RunsOf_FinalFromStart(smp) ==
    LET tr == Transitions(smp)
        m == Len(tr)
    IN  [i \in 1..(m - 1) |-> <<tr[i][2], tr[i + 1][1] - tr[i][1]>>]
        \o << <<tr[m][2], smp[Len(smp)][1] - smp[1][1]>> >>

RunsOf(smp) ==
    LET tr == Transitions(smp)
        m == Len(tr)
    IN  [i \in 1..(m - 1) |-> <<tr[i][2], tr[i + 1][1] - tr[i][1]>>]
        \o << <<tr[m][2], smp[Len(smp)][1] - tr[m][1]>> >>

\* times[0] raises IndexError on a trace without rows
read_trace(smp) ==
    IF Len(smp) = 0 THEN [kind |-> "IndexError"]
    ELSE [kind |-> "ok", runs |-> RunsOf(smp)]

-----------------------------------------------------------------------------
(* build_bitvector, lines 39-63 *)

\* the quantum taken from the shortest run of either level
EstimateT0_AnyLevel(rs) == Min({rs[i][2] : i \in 1..Len(rs)})

EstimateT0(rs) ==
    LET low_durations == {rs[i][2] : i \in {j \in 1..Len(rs) : rs[j][1] = 0}}
    IN  IF low_durations # {} THEN Min(low_durations)
        ELSE Min({rs[i][2] : i \in 1..Len(rs)})

\* line 51 with `runs[i:]` for `runs[i + 1:]`: the idle run itself is kept
Trim_KeepIdle(rs, q) ==
    LET idle == {i \in 1..Len(rs) : rs[i][2] >= TrimFactor * q}
    IN  IF idle = {} THEN rs ELSE SubSeq(rs, Min(idle), Len(rs))

\* the runs left after trimming to the first run of duration >= 20 x T0
Trim(rs, q) ==
    LET idle == {i \in 1..Len(rs) : rs[i][2] >= TrimFactor * q}
    IN  IF idle = {} THEN rs ELSE SubSeq(rs, Min(idle) + 1, Len(rs))

\* line 57 with `max(1, round(dur / T0))`: every run gets at least one bit
RECURSIVE Expand_AtLeastOne(_, _, _)
Expand_AtLeastOne(rs, q, i) ==
    IF i > Len(rs) THEN <<>>
    ELSE LET n == Round(rs[i][2], q)
         IN  Rep(rs[i][1], IF n < 1 THEN 1 ELSE n)
                 \o Expand_AtLeastOne(rs, q, i + 1)

RECURSIVE Expand(_, _, _)
Expand(rs, q, i) ==
    IF i > Len(rs) THEN <<>>
    ELSE Rep(rs[i][1], Round(rs[i][2], q)) \o Expand(rs, q, i + 1)

build_bitvector(rs) ==
    LET q == EstimateT0(rs)
        rest == Trim(rs, q)
    IN  IF q = 0 /\ Len(rest) > 0
        THEN [kind |-> "ZeroDivisionError", T0 |-> q]
        ELSE [kind |-> "ok", bitvec |-> Expand(rest, q, 1), T0 |-> q]

-----------------------------------------------------------------------------
(* extract_and_verify, lines 66-107 *)

\* the index at which a loop that does only `i += 1` while bit i is b stops:
\* the first index >= i whose bit is not b, or len(bv)
SkipWhile(bv, i, b) ==
    CHOOSE j \in i..Len(bv) :
        /\ j = Len(bv) \/ bv[j + 1] # b
        /\ \A x \in i..(j - 1) : bv[x + 1] = b

\* lines 78-79
RunEnd(bv, i) == SkipWhile(bv, i, 1)

\* the inner loop with `run_len > min_idle` for `run_len >= min_idle`
RECURSIVE FrameOpen_StrictIdle(_, _, _)
FrameOpen_StrictIdle(bv, idle, i) ==
    IF i >= Len(bv) THEN [closed |-> FALSE, i |-> i]
    ELSE IF bv[i + 1] = 1
         THEN LET run_start == i
                  j == RunEnd(bv, i)
                  run_len == j - run_start
              IN  IF run_len > idle
                  THEN [closed |-> TRUE, end |-> run_start, i |-> j]
                  ELSE FrameOpen_StrictIdle(bv, idle, j)
         ELSE FrameOpen_StrictIdle(bv, idle, SkipWhile(bv, i, 0))

\* the inner loop recording the open frame when the bitvector ends
RECURSIVE FrameOpen_CloseAtEnd(_, _, _)
FrameOpen_CloseAtEnd(bv, idle, i) ==
    IF i >= Len(bv) THEN [closed |-> TRUE, end |-> Len(bv), i |-> i]
    ELSE IF bv[i + 1] = 1
         THEN LET run_start == i
                  j == RunEnd(bv, i)
                  run_len == j - run_start
              IN  IF run_len >= idle
                  THEN [closed |-> TRUE, end |-> run_start, i |-> j]
                  ELSE FrameOpen_CloseAtEnd(bv, idle, j)
         ELSE FrameOpen_CloseAtEnd(bv, idle, SkipWhile(bv, i, 0))

\* lines 75-87, the inner loop entered with a frame open, one evaluation per
\* run of equal bits: where the frame closes (end) and where the scan goes on (i)
\* line 82 with `end = i`: the frame takes the closing idle run with it
RECURSIVE FrameOpen_EndAfterIdle(_, _, _)
FrameOpen_EndAfterIdle(bv, idle, i) ==
    IF i >= Len(bv) THEN [closed |-> FALSE, i |-> i]
    ELSE IF bv[i + 1] = 1
         THEN LET run_start == i
                  j == RunEnd(bv, i)
                  run_len == j - run_start
              IN  IF run_len >= idle
                  THEN [closed |-> TRUE, end |-> j, i |-> j]
                  ELSE FrameOpen_EndAfterIdle(bv, idle, j)
         ELSE FrameOpen_EndAfterIdle(bv, idle, SkipWhile(bv, i, 0))

RECURSIVE FrameOpen(_, _, _)
FrameOpen(bv, idle, i) ==
    IF i >= Len(bv) THEN [closed |-> FALSE, i |-> i]
    ELSE IF bv[i + 1] = 1
         THEN LET run_start == i
                  j == RunEnd(bv, i)
                  run_len == j - run_start
              IN  IF run_len >= idle
                  THEN [closed |-> TRUE, end |-> run_start, i |-> j]
                  ELSE FrameOpen(bv, idle, j)
         ELSE FrameOpen(bv, idle, SkipWhile(bv, i, 0))

\* lines 72-89, the outer loop; acc = [frames, positions]
RECURSIVE Scan(_, _, _, _)
Scan(bv, idle, i, acc) ==
    IF i >= Len(bv) THEN acc
    ELSE IF bv[i + 1] = 0
         THEN LET start == i
                  fr == FrameOpen(bv, idle, i)
              IN  IF fr.closed
                  THEN Scan(bv, idle, fr.i,
                            [frames |-> Append(acc.frames, Slice(bv, start, fr.end)),
                             positions |-> Append(acc.positions, <<start, fr.end>>)])
                  ELSE Scan(bv, idle, fr.i, acc)
         ELSE Scan(bv, idle, SkipWhile(bv, i, 1), acc)

\* line 69 with `i = 1`
ScanFrames_FromOne(bv, idle) ==
    Scan(bv, idle, 1, [frames |-> <<>>, positions |-> <<>>])

ScanFrames(bv, idle) == Scan(bv, idle, 0, [frames |-> <<>>, positions |-> <<>>])

\* the comparison loop starting one frame late
CountErrors_SkipSecond(frames) ==
    Cardinality({idx \in 3..Len(frames) : frames[idx] # frames[1]})

\* the comparison loop stopping one frame early
CountErrors_SkipLast(frames) ==
    Cardinality({idx \in 2..(Len(frames) - 1) : frames[idx] # frames[1]})

\* lines 95-101: the number of frames after the first that differ from it
CountErrors(frames) ==
    Cardinality({idx \in 2..Len(frames) : frames[idx] # frames[1]})

extract_and_verify(bv, idle) ==
    LET sc == ScanFrames(bv, idle)
        errors == CountErrors(sc.frames)
    IN  IF Len(sc.frames) = 0 THEN [kind |-> "NoFrames"]
        ELSE IF errors > 0 THEN [kind |-> "Differ", errors |-> errors]
        ELSE [kind |-> "ok", frame |-> sc.frames[1],
              count |-> Len(sc.frames) - errors, positions |-> sc.positions]

-----------------------------------------------------------------------------
(* debug_print_frame_and_bitvec, lines 110-123: the printed lines, each     *)
(* <<line, marker>>                                                         *)

\* Python's bv[a:b] for 0 <= a, 0 <= b: both ends are clamped to len(bv)
SliceClamped(bv, a, b) ==
    LET hi == IF b > Len(bv) THEN Len(bv) ELSE b
    IN  IF a >= hi THEN <<>> ELSE SubSeq(bv, a + 1, hi)

debug_print_frame_and_bitvec(ref, bitvec, pos) ==
    LET frame_len == Len(ref)
    IN  [k \in 1..Len(pos) |->
            LET start == pos[k][1]
                line == SliceClamped(bitvec, start, start + frame_len)
            IN  <<line, IF line = ref THEN "OK" ELSE "DIFF">>]

-----------------------------------------------------------------------------
(* Inputs: bit patterns, synthetic captures and the trace files of a run *)

\* the bits of a list of run lengths whose levels alternate from `first`
RECURSIVE BitsOfLens(_, _, _)
BitsOfLens(lens, first, i) ==
    IF i > Len(lens) THEN <<>>
    ELSE Rep(first, lens[i]) \o BitsOfLens(lens, 1 - first, i + 1)

\* reps[1] idle reps[2] idle ... ; lead: an idle run first; trail: an idle
\* run after the last repetition
RECURSIVE TileFrom(_, _, _, _)
TileFrom(reps, idle, trail, i) ==
    IF i > Len(reps) THEN <<>>
    ELSE reps[i]
         \o (IF i < Len(reps) \/ trail THEN Rep(1, idle) ELSE <<>>)
         \o TileFrom(reps, idle, trail, i + 1)

Tile(reps, idle, lead, trail) ==
    (IF lead THEN Rep(1, idle) ELSE <<>>) \o TileFrom(reps, idle, trail, 1)

\* the signal that holds each bit for `ticks` ticks, as (level, duration) runs
RECURSIVE RunsOfBits(_, _, _)
RunsOfBits(bits, ticks, i) ==
    IF i >= Len(bits) THEN <<>>
    ELSE LET j == SkipWhile(bits, i, bits[i + 1])
         IN  << <<bits[i + 1], (j - i) * ticks>> >> \o RunsOfBits(bits, ticks, j)

\* the rows of a capture of the runs rs starting at time 0: one row per
\* level change and, when closed, a last row at the end of the capture
RECURSIVE RowsOfRuns(_, _, _, _)
RowsOfRuns(rs, i, at, closed) ==
    IF i > Len(rs)
    THEN IF closed /\ Len(rs) > 0 THEN << <<at, rs[Len(rs)][1]>> >> ELSE <<>>
    ELSE << <<at, rs[i][1]>> >> \o RowsOfRuns(rs, i + 1, at + rs[i][2], closed)

-----------------------------------------------------------------------------
(* The trace files a run of main is given *)

MaxTraces == 2

\* a frame of n >= 18 bits: starts and ends with '0', has an isolated '0'
Pattern(n) == BitsOfLens(<<1, 2, 3, 4, 2, 5, n - 17>>, 0, 1)

Flip(bits, b) == [bits EXCEPT ![b] = 1 - @]

\* a capture, one tick per bit, of the tiled repetitions
Capture(reps, closed) ==
    RowsOfRuns(RunsOfBits(Tile(reps, DefaultMinIdle, TRUE, TRUE), 1, 0), 1, 0, closed)

ScenarioRuns ==
    LET unit == << <<0, 2>>, <<1, 1>>, <<0, 2>>, <<1, 50>> >>
    IN  unit \o unit \o unit \o unit \o unit \o unit

Files ==
    {"empty.csv", "ones.csv", "ok30x5.csv", "ok34x4.csv", "differ.csv",
     "scenario.csv", "len3.csv", "len29.csv", "len35.csv", "endlow.csv"}

TraceFile ==
    [name \in Files |->
        CASE name = "empty.csv" -> <<>>
          [] name = "ones.csv" -> << <<0, 1>>, <<30, 1>> >>
          [] name = "ok30x5.csv" -> Capture(Rep(Pattern(30), 5), TRUE)
          [] name = "ok34x4.csv" -> Capture(Rep(Pattern(34), 4), TRUE)
          [] name = "differ.csv" ->
                Capture([Rep(Pattern(30), 5) EXCEPT ![3] = Flip(Pattern(30), 9)], TRUE)
          [] name = "scenario.csv" -> RowsOfRuns(ScenarioRuns, 1, 0, TRUE)
          [] name = "len3.csv" -> Capture(Rep(<<0, 1, 0>>, 5), TRUE)
          [] name = "len29.csv" -> Capture(Rep(Pattern(29), 5), TRUE)
          [] name = "len35.csv" -> Capture(Rep(Pattern(35), 5), TRUE)
          [] name = "endlow.csv" ->
                Capture(Rep(Pattern(30), 5), FALSE) \o << <<400, 0>> >>]

TraceLists == UNION {[1..n -> Files] : n \in 1..MaxTraces}

-----------------------------------------------------------------------------
(* main, lines 143-182 *)

\* the length check with the classification threshold at the lower bound
LengthCheck_Short30(f) ==
    IF MinFrameLen > Len(f) \/ Len(f) > MaxFrameLen
    THEN [kind |-> IF Len(f) < MinFrameLen THEN "TooShort" ELSE "TooLong", n |-> Len(f)]
    ELSE [kind |-> "ok"]

\* lines 151-153: the length check and its classification
LengthCheck(f) ==
    IF MinFrameLen > Len(f) \/ Len(f) > MaxFrameLen
    THEN [kind |-> IF Len(f) < ShortLimit THEN "TooShort" ELSE "TooLong", n |-> Len(f)]
    ELSE [kind |-> "ok"]

\* the persistence threshold off by one
ShouldPersist_OffByOne(c) == c > MinCount - 2

\* line 161
ShouldPersist(c) == c >= MinCount

NoSynth == [kind |-> "none"]

InitMain ==
    /\ traces \in TraceLists
    /\ t = 1
    /\ pc = "read"
    /\ runs = <<>>
    /\ whole_bitvector = <<>>
    /\ T0 = 0
    /\ frame = Unbound
    /\ count = 0
    /\ positions = <<>>
    /\ trace_errors = <<>>
    /\ written = {}
    /\ reported = <<>>
    /\ samples = <<>>
    /\ min_idle = DefaultMinIdle
    /\ res = NoRes
    /\ synth = NoSynth
    /\ scan = NoScan

\* line 147; an exception of read_trace is not caught and ends the run
MainRead ==
    /\ pc = "read"
    /\ t <= Len(traces)
    /\ samples' = TraceFile[traces[t]]
    /\ res' = read_trace(samples')
    /\ IF res'.kind = "ok"
       THEN runs' = res'.runs /\ pc' = "build"
       ELSE runs' = runs /\ pc' = "crashed"
    /\ UNCHANGED <<traces, t, whole_bitvector, T0, frame, count, positions,
                   trace_errors, written, reported, min_idle, synth,
                   scan>>

\* line 148; an exception of build_bitvector is not caught and ends the run
MainBuild ==
    /\ pc = "build"
    /\ res' = build_bitvector(runs)
    /\ IF res'.kind = "ok"
       THEN whole_bitvector' = res'.bitvec /\ T0' = res'.T0 /\ pc' = "extract"
       ELSE whole_bitvector' = whole_bitvector /\ T0' = T0 /\ pc' = "crashed"
    /\ UNCHANGED <<traces, t, runs, frame, count, positions, trace_errors,
                   written, reported, samples, min_idle, synth,
                   scan>>

\* lines 149-157: the try block and its handler. The handler reads the
\* local `frame`, which extract_and_verify assigns only when it returns.
MainTry ==
    /\ pc = "extract"
    /\ res' = extract_and_verify(whole_bitvector, DefaultMinIdle)
    /\ IF res'.kind = "ok"
       THEN /\ frame' = res'.frame
            /\ count' = res'.count
            /\ positions' = res'.positions
            /\ LET chk == LengthCheck(frame')
               IN  IF chk.kind = "ok"
                   THEN pc' = "persist" /\ t' = t /\ trace_errors' = trace_errors
                   ELSE /\ trace_errors' = Append(trace_errors, <<traces[t], frame', chk>>)
                        /\ t' = t + 1
                        /\ pc' = "read"
       ELSE /\ UNCHANGED <<frame, count, positions>>
            /\ IF frame = Unbound
               THEN pc' = "crashed" /\ t' = t /\ trace_errors' = trace_errors
               ELSE /\ trace_errors' = Append(trace_errors, <<traces[t], frame, res'>>)
                    /\ t' = t + 1
                    /\ pc' = "read"
    /\ UNCHANGED <<traces, runs, whole_bitvector, T0, written, reported, samples,
                   min_idle, synth,
                   scan>>

\* lines 159-177
MainPersist ==
    /\ pc = "persist"
    /\ reported' = Append(reported, <<traces[t], frame, Len(frame), count>>)
    /\ written' = IF ShouldPersist(count)
                  THEN {w \in written : w[1] # traces[t]} \cup {<<traces[t], frame>>}
                  ELSE written
    /\ t' = t + 1
    /\ pc' = "read"
    /\ UNCHANGED <<traces, runs, whole_bitvector, T0, frame, count, positions,
                   trace_errors, samples, min_idle, res, synth,
                   scan>>

\* lines 179-182: the loop is over, the error list is printed
MainReport ==
    /\ pc = "read"
    /\ t > Len(traces)
    /\ pc' = "done"
    /\ UNCHANGED <<traces, t, runs, whole_bitvector, T0, frame, count, positions,
                   trace_errors, written, reported, samples, min_idle, res, synth,
                   scan>>

Next == MainRead \/ MainBuild \/ MainTry \/ MainPersist \/ MainReport

Spec == InitMain /\ [][Next]_vars

-----------------------------------------------------------------------------
(* The functions called on their own, on inputs drawn from bounded sets *)

MaxBits == 7        \* longest bitvector given to extract_and_verify
MaxIdle == 2        \* largest min_idle tried on those bitvectors
MaxPat == 4         \* longest frame tiled with one flipped bit
MaxReps == 3        \* most repetitions of that frame
MaxSamples == 3     \* most rows of a trace given to read_trace
MaxTime == 4        \* largest timestamp of those rows
MaxK == 6           \* most repetitions of a synthetic capture
MaxExtraIdle == 1   \* idle separators are min_idle .. min_idle + MaxExtraIdle bits
MaxTicks == 2       \* a bit lasts 1 .. MaxTicks ticks

BitSeqs(lo, hi) == UNION {[1..n -> {0, 1}] : n \in lo..hi}

\* the state of main's variables in a run that only calls one function
NoMain ==
    /\ traces = <<>>
    /\ t = 1
    /\ frame = Unbound
    /\ count = 0
    /\ positions = <<>>
    /\ trace_errors = <<>>
    /\ written = {}
    /\ reported = <<>>
    /\ res = NoRes
    /\ scan = NoScan

\* read_trace(samples)
CallRead ==
    /\ pc = "call_read"
    /\ res' = read_trace(samples)
    /\ IF res'.kind = "ok"
       THEN runs' = res'.runs /\ pc' = "returned"
       ELSE runs' = runs /\ pc' = "raised"
    /\ UNCHANGED <<traces, t, whole_bitvector, T0, frame, count, positions,
                   trace_errors, written, reported, samples, min_idle, synth,
                   scan>>

\* build_bitvector(runs), its result handed on to extract_and_verify
CallBuild ==
    /\ pc = "call_build"
    /\ res' = build_bitvector(runs)
    /\ IF res'.kind = "ok"
       THEN whole_bitvector' = res'.bitvec /\ T0' = res'.T0 /\ pc' = "call_extract"
       ELSE whole_bitvector' = whole_bitvector /\ T0' = T0 /\ pc' = "raised"
    /\ UNCHANGED <<traces, t, runs, frame, count, positions, trace_errors,
                   written, reported, samples, min_idle, synth,
                   scan>>

\* extract_and_verify(whole_bitvector, min_idle)
CallExtract ==
    /\ pc = "call_extract"
    /\ res' = extract_and_verify(whole_bitvector, min_idle)
    /\ pc' = IF res'.kind = "ok" THEN "returned" ELSE "raised"
    /\ UNCHANGED <<traces, t, runs, whole_bitvector, T0, frame, count, positions,
                   trace_errors, written, reported, samples, min_idle, synth,
                   scan>>

Called == pc \in {"returned", "raised"}

(* read_trace on every trace of up to MaxSamples rows with strictly        *)
(* increasing timestamps                                                    *)

SampleSeqs ==
    {smp \in UNION {[1..n -> (0..MaxTime) \X {0, 1}] : n \in 0..MaxSamples} :
        \A i \in 1..(Len(smp) - 1) : smp[i][1] < smp[i + 1][1]}

InitRead ==
    /\ NoMain
    /\ samples \in SampleSeqs
    /\ pc = "call_read"
    /\ runs = <<>>
    /\ whole_bitvector = <<>>
    /\ T0 = 0
    /\ min_idle = DefaultMinIdle
    /\ synth = NoSynth

SpecRead == InitRead /\ [][CallRead]_vars

(* extract_and_verify on every bitvector of up to MaxBits bits *)

InitExtract ==
    /\ NoMain
    /\ samples = <<>>
    /\ runs = <<>>
    /\ whole_bitvector \in BitSeqs(0, MaxBits)
    /\ min_idle \in 1..MaxIdle
    /\ T0 = 0
    /\ pc = "call_extract"
    /\ synth = NoSynth

SpecExtract == InitExtract /\ [][CallExtract]_vars

(* extract_and_verify on a frame repeated k times, each repetition         *)
(* followed by an idle run, one repetition with one bit flipped            *)

\* a frame: starts and ends with '0' and holds no run of `idle` '1's
IsFrame(p, idle) ==
    /\ Len(p) >= 1
    /\ p[1] = 0
    /\ p[Len(p)] = 0
    /\ \A s \in 1..(Len(p) - idle + 1) : \E x \in s..(s + idle - 1) : p[x] = 0

InitFlip ==
    /\ NoMain
    /\ samples = <<>>
    /\ runs = <<>>
    /\ T0 = 0
    /\ pc = "call_extract"
    /\ min_idle \in 1..MaxIdle
    /\ \E p \in BitSeqs(1, MaxPat), k \in 2..MaxReps, gap \in 0..MaxExtraIdle :
         \E r \in 1..k, b \in 1..Len(p) :
            /\ IsFrame(p, min_idle)
            /\ synth = [kind |-> "flip", pattern |-> p, k |-> k,
                        idle |-> min_idle + gap, rep |-> r, bit |-> b]
            /\ whole_bitvector =
                  Tile([Rep(p, k) EXCEPT ![r] = Flip(p, b)], min_idle + gap, TRUE, TRUE)

SpecFlip == InitFlip /\ [][CallExtract]_vars

(* build_bitvector and extract_and_verify on a synthetic capture: an N-bit  *)
(* pattern tiled k times with idle separators, each bit held `ticks` ticks  *)

Shapes ==
    {"low_tail", "long_high", "starts_high", "ends_high", "no_single_low",
     "all_high", "all_low", "plain"}

ShapeBits(shape, n) ==
    CASE shape = "low_tail" -> BitsOfLens(<<1, 2, n - 3>>, 0, 1)
      [] shape = "long_high" -> BitsOfLens(<<1, 9, 1, n - 12, 1>>, 0, 1)
      [] shape = "starts_high" -> BitsOfLens(<<1, 1, 2, n - 4>>, 1, 1)
      [] shape = "ends_high" -> BitsOfLens(<<1, 2, n - 4, 1>>, 0, 1)
      [] shape = "no_single_low" -> BitsOfLens(<<2, 2, n - 4>>, 0, 1)
      [] shape = "all_high" -> Rep(1, n)
      [] shape = "all_low" -> Rep(0, n)
      [] shape = "plain" -> BitsOfLens(<<1, 3, 2, 4, n - 10>>, 0, 1)

InitSynth ==
    /\ NoMain
    /\ samples = <<>>
    /\ whole_bitvector = <<>>
    /\ T0 = 0
    /\ pc = "call_build"
    /\ min_idle = DefaultMinIdle
    /\ \E shape \in Shapes, n \in MinFrameLen..MaxFrameLen, k \in MinCount..MaxK,
          gap \in 0..MaxExtraIdle, lead \in BOOLEAN, trail \in BOOLEAN,
          ticks \in 1..MaxTicks :
            /\ synth = [kind |-> "tile", pattern |-> ShapeBits(shape, n), k |-> k,
                        idle |-> DefaultMinIdle + gap, lead |-> lead, trail |-> trail,
                        ticks |-> ticks]
            /\ \E bits \in {Tile(Rep(synth.pattern, k), synth.idle, lead, trail)} :
                  runs = RunsOfBits(bits, ticks, 0)

SpecSynth == InitSynth /\ [][CallBuild \/ CallExtract]_vars

-----------------------------------------------------------------------------
(* What each trace file holds, computed once: the bitvector built from it   *)
(* and the frames the scan finds in it                                      *)

Decoded ==
    [name \in Files |->
        LET rd == read_trace(TraceFile[name])
            bb == build_bitvector(rd.runs)
        IN  IF rd.kind # "ok" THEN rd
            ELSE IF bb.kind # "ok" THEN bb
            ELSE [kind |-> "decoded", bitvec |-> bb.bitvec, T0 |-> bb.T0,
                  frames |-> ScanFrames(bb.bitvec, DefaultMinIdle).frames]]

AllEqual(fs) == \A k \in 1..Len(fs) : fs[k] = fs[1]

HasError(name) == \E i \in 1..Len(trace_errors) : trace_errors[i][1] = name
IsWritten(name) == \E w \in written : w[1] = name
IsReported(name) == \E i \in 1..Len(reported) : reported[i][1] = name

\* main has finished trace j (it moved on to the next one)
Finished(j) == j \in 1..(t - 1)

-----------------------------------------------------------------------------
Fails(name) ==
    LET d == Decoded[name]
    IN  \/ d.kind = "IndexError"
        \/ /\ d.kind = "decoded"
           /\ \/ Len(d.frames) = 0
              \/ ~AllEqual(d.frames)
              \/ Len(d.frames[1]) \notin 30..34

(* C1: a failing trace (zero samples, no frames, mismatching frames, frame  *)
(* length out of range) is fatal to that trace only: when the run ends,     *)
(* every trace of the list was processed and every failing one is in the    *)
(* aggregate error list, wherever the failing trace stands in the list.     *)
C1_FailureIsolated ==
    pc \in {"done", "crashed"} =>
        /\ t = Len(traces) + 1
        /\ \A j \in 1..Len(traces) : Fails(traces[j]) => HasError(traces[j])

-----------------------------------------------------------------------------
Reliable(name) ==
    LET d == Decoded[name]
    IN  /\ d.kind = "decoded"
        /\ Len(d.frames) >= 1
        /\ AllEqual(d.frames)
        /\ Len(d.frames[1]) \in 30..34

(* C4: a .frame file is written for a finished trace if and only if the     *)
(* extraction found frames, all frames matched, the frame length is in      *)
(* [30,34] and it occurred at least 5 times; the file holds that frame; and  *)
(* a trace whose frames match with a valid length records no error and is   *)
(* reported, even when (as with 4 repetitions) nothing is written for it.   *)
C4_PersistedIffReliable ==
    /\ \A j \in 1..Len(traces) : Finished(j) =>
          LET name == traces[j]
          IN  /\ IsWritten(name) <=> (Reliable(name) /\ Len(Decoded[name].frames) >= 5)
              /\ Reliable(name) => (~HasError(name) /\ IsReported(name))
    /\ \A w \in written : w[2] = Decoded[w[1]].frames[1]

C4_Witness ==
    /\ \E j \in 1..Len(traces) :
          /\ Finished(j)
          /\ Reliable(traces[j])
          /\ Len(Decoded[traces[j]].frames) = 4
          /\ ~IsWritten(traces[j]) /\ ~HasError(traces[j])
    /\ \E j \in 1..Len(traces) : Finished(j) /\ IsWritten(traces[j])

-----------------------------------------------------------------------------
(* C5: after a successful extraction main accepts the frame exactly when    *)
(* 30 <= len(frame) <= 34; any other length puts the trace in the error     *)
(* list, classified "too short" when len(frame) < 3 and "too long"          *)
(* otherwise (lengths 3..29 included).                                      *)
C5_LengthCheck ==
    \A j \in 1..Len(traces) : Finished(j) =>
        LET name == traces[j]
            d == Decoded[name]
        IN  (d.kind = "decoded" /\ Len(d.frames) >= 1 /\ AllEqual(d.frames)) =>
                LET n == Len(d.frames[1])
                IN  IF 30 <= n /\ n <= 34
                    THEN IsReported(name) /\ ~HasError(name)
                    ELSE /\ ~IsReported(name)
                         /\ \E i \in 1..Len(trace_errors) :
                               /\ trace_errors[i][1] = name
                               /\ trace_errors[i][3] =
                                     [kind |-> IF n < 3 THEN "TooShort" ELSE "TooLong",
                                      n |-> n]

C5_Witness ==
    /\ \E i \in 1..Len(trace_errors) :
          trace_errors[i][3].kind = "TooLong" /\ trace_errors[i][3].n \in 3..29
    /\ \E i \in 1..Len(trace_errors) : trace_errors[i][3].kind = "TooShort"

-----------------------------------------------------------------------------
(* C6: the outcome recorded for a trace depends on that trace alone: the    *)
(* frame reported with a failure is a frame decoded from the failing trace  *)
(* itself, never one decoded from another trace.                            *)
C6_ReportedFrameIsOwn ==
    \A i \in 1..Len(trace_errors) :
        LET d == Decoded[trace_errors[i][1]]
        IN  /\ d.kind = "decoded"
            /\ \E k \in 1..Len(d.frames) : d.frames[k] = trace_errors[i][2]

-----------------------------------------------------------------------------
(* C7: the concrete scenario [(0,1ms),(1,0.5ms),(0,1ms),(1,25ms)] x 6 (one  *)
(* tick = 0.5 ms).                                                          *)

AfterScenario ==
    /\ pc = "read"
    /\ t > 1
    /\ traces[t - 1] = "scenario.csv"

\* the lengths of the maximal runs of '1' of at least min_idle bits
IdleRunLens(bv) ==
    {RunEnd(bv, i) - i :
        i \in {k \in 0..(Len(bv) - 1) :
                  /\ bv[k + 1] = 1
                  /\ (k = 0 \/ bv[k] = 0)
                  /\ RunEnd(bv, k) - k >= DefaultMinIdle}}

\* C7 as stated: quantum 0.5 ms (1 tick), idle runs of 50 '1's, 6 equal
\* frames of 4 bits, rejected as "too short"
C7_AsStated ==
    AfterScenario =>
        /\ T0 = 1
        /\ IdleRunLens(whole_bitvector) = {50}
        /\ count = 6
        /\ Len(frame) = 4
        /\ trace_errors[Len(trace_errors)][3].kind = "TooShort"

\* C7 amended: the quantum is the shortest low run, 1 ms (2 ticks); the
\* idle trim drops the first repetition; the idle runs are 25 '1's; the
\* 0.5 ms pulse rounds to no bit; 5 equal frames "00" of 2 bits, count 5,
\* rejected as "too short"
C7_Scenario ==
    AfterScenario =>
        /\ T0 = 2
        /\ IdleRunLens(whole_bitvector) = {25}
        /\ count = 5
        /\ frame = <<0, 0>>
        /\ positions = <<<<0, 2>>, <<27, 29>>, <<54, 56>>, <<81, 83>>, <<108, 110>>>>
        /\ trace_errors[Len(trace_errors)] =
              <<"scenario.csv", <<0, 0>>, [kind |-> "TooShort", n |-> 2]>>

C7_Witness == AfterScenario /\ Len(trace_errors) >= 1 /\ count = 5

-----------------------------------------------------------------------------
(* C2: round trip of a synthetic capture through build_bitvector and        *)
(* extract_and_verify.                                                      *)

\* the pattern has a low run of exactly one bit
HasSingleLow(p) ==
    \E i \in 1..Len(p) :
        /\ p[i] = 0
        /\ i = 1 \/ p[i - 1] = 1
        /\ i = Len(p) \/ p[i + 1] = 1

\* C2 as stated: every N-bit pattern (N in 30..34) tiled k >= 5 times with
\* idle separators of at least min_idle bits comes back as the frame, with
\* occurrence_count = k
C2_AsStated ==
    (Called /\ synth.kind = "tile") =>
        /\ res.kind = "ok"
        /\ res.frame = synth.pattern
        /\ res.count = synth.k

\* C2 amended: the round trip holds for every N-bit pattern that starts and
\* ends with '0', holds a low run of exactly one bit and no run of min_idle
\* '1's, when the capture begins with an idle separator and every
\* repetition, the last included, is followed by one
C2_RoundTrip ==
    (/\ Called
     /\ synth.kind = "tile"
     /\ IsFrame(synth.pattern, DefaultMinIdle)
     /\ HasSingleLow(synth.pattern)
     /\ synth.lead
     /\ synth.trail) =>
        /\ res.kind = "ok"
        /\ res.frame = synth.pattern
        /\ res.count = synth.k
        /\ T0 = synth.ticks

C2_Witness ==
    /\ pc = "returned"
    /\ synth.kind = "tile"
    /\ IsFrame(synth.pattern, DefaultMinIdle)
    /\ HasSingleLow(synth.pattern)
    /\ synth.lead /\ synth.trail
    /\ synth.ticks > 1
    /\ res.count = synth.k

-----------------------------------------------------------------------------
(* C3: mismatch detection on a frame repeated with one flipped bit.         *)

Flipped == Flip(synth.pattern, synth.bit)

\* no run of `idle` '1's of m lies between two '0's of m
NoSplit(m, idle) ==
    ~ \E s \in 1..(Len(m) - idle + 1) :
        /\ \A x \in s..(s + idle - 1) : m[x] = 1
        /\ \E a \in 1..(s - 1) : m[a] = 0
        /\ \E c \in (s + idle)..Len(m) : m[c] = 0

\* C3 as stated: whichever repetition holds the flipped bit (the first
\* included) and whichever bit it is, the call fails with the unreliable
\* capture error carrying a mismatch count of exactly 1
C3_AsStated ==
    (Called /\ synth.kind = "flip") => (res.kind = "Differ" /\ res.errors = 1)

\* C3 amended: the same when the flipped repetition is not the first one
\* (the reference every frame is compared with), still holds a '0' and the
\* flip joins no run of min_idle '1's between two of its '0's
C3_MismatchCount ==
    (/\ Called
     /\ synth.kind = "flip"
     /\ synth.rep # 1
     /\ \E a \in 1..Len(Flipped) : Flipped[a] = 0
     /\ NoSplit(Flipped, min_idle)) =>
        (res.kind = "Differ" /\ res.errors = 1)

C3_Witness ==
    /\ pc = "raised"
    /\ synth.kind = "flip"
    /\ synth.rep = synth.k /\ synth.k > 2
    /\ synth.bit = 1
    /\ NoSplit(Flipped, min_idle)
    /\ res.kind = "Differ" /\ res.errors = 1

-----------------------------------------------------------------------------
(* C8: whenever extract_and_verify returns normally, the returned frame     *)
(* equals every extracted frame, the returned count equals the number of    *)
(* frames found and len(positions), and bitvec[start:end] equals the        *)
(* returned frame for every returned position.                              *)
C8_ReturnConsistent ==
    (pc = "returned" /\ res.kind = "ok") =>
        LET found == ScanFrames(whole_bitvector, min_idle).frames
        IN  /\ \A k \in 1..Len(found) : found[k] = res.frame
            /\ res.count = Len(found)
            /\ res.count = Len(res.positions)
            /\ \A k \in 1..Len(res.positions) :
                  Slice(whole_bitvector, res.positions[k][1], res.positions[k][2])
                      = res.frame

C8_Witness ==
    /\ pc = "returned"
    /\ res.kind = "ok"
    /\ res.count >= 2
    /\ Len(res.frame) >= 2

-----------------------------------------------------------------------------
\* bits k .. k + idle - 1 (0-based) exist and are all '1'
IdleAt(bv, k, idle) ==
    /\ k + idle <= Len(bv)
    /\ \A x \in k..(k + idle - 1) : bv[x + 1] = 1

\* the indices where an idle run starts right after a '0'
Closers(bv, idle) ==
    {k \in 1..(Len(bv) - 1) : bv[k] = 0 /\ IdleAt(bv, k, idle)}

(* C9: extract_and_verify fails with the no-frames error exactly when no    *)
(* frame was extracted, which is exactly when the bitvector holds no '0'    *)
(* followed later by a run of at least min_idle '1's; a frame that is       *)
(* opened but not closed by an idle run before the bitvector ends is        *)
(* neither recorded nor compared.                                           *)
C9_NoFrames ==
    Called =>
        LET bv == whole_bitvector
            sc == ScanFrames(bv, min_idle)
        IN  /\ res.kind = "NoFrames" <=> Len(sc.frames) = 0
            /\ res.kind = "NoFrames" <=>
                  ~ \E a \in 0..(Len(bv) - 1), k \in 0..(Len(bv) - 1) :
                        bv[a + 1] = 0 /\ a < k /\ IdleAt(bv, k, min_idle)
            /\ Len(sc.frames) = Cardinality(Closers(bv, min_idle))
            /\ \A k \in 1..Len(sc.positions) :
                  sc.positions[k][2] \in Closers(bv, min_idle)
            /\ res.kind = "ok" => res.count = Cardinality(Closers(bv, min_idle))

C9_Witness ==
    /\ pc = "raised"
    /\ res.kind = "NoFrames"
    /\ \E a \in 1..Len(whole_bitvector) : whole_bitvector[a] = 0
    /\ \E a \in 1..Len(whole_bitvector) : whole_bitvector[a] = 1

-----------------------------------------------------------------------------
(* C10: for every non-empty trace with strictly increasing timestamps,      *)
(* every run read_trace emits, the final run that lasts until the end of    *)
(* the capture included, has a duration > 0.                                *)
C10_PositiveDurations ==
    (pc = "returned" /\ Len(samples) > 0) =>
        \A i \in 1..Len(runs) : runs[i][2] > 0

-----------------------------------------------------------------------------
(* read_trace, build_bitvector and extract_and_verify in sequence, as main  *)
(* calls them, on every trace of up to MaxSamples rows                      *)

DecodeRead ==
    /\ pc = "decode_read"
    /\ res' = read_trace(samples)
    /\ IF res'.kind = "ok"
       THEN runs' = res'.runs /\ pc' = "call_build"
       ELSE runs' = runs /\ pc' = "raised"
    /\ UNCHANGED <<traces, t, whole_bitvector, T0, frame, count, positions,
                   trace_errors, written, reported, samples, min_idle, synth,
                   scan>>

InitDecode ==
    /\ NoMain
    /\ samples \in SampleSeqs
    /\ pc = "decode_read"
    /\ runs = <<>>
    /\ whole_bitvector = <<>>
    /\ T0 = 0
    /\ min_idle \in 1..MaxIdle
    /\ synth = NoSynth

SpecDecode == InitDecode /\ [][DecodeRead \/ CallBuild \/ CallExtract]_vars

(* C11: for every run list read_trace produces from a non-empty trace with  *)
(* strictly increasing timestamps, the quantum T0 of build_bitvector is     *)
(* > 0, so round(duration / T0) is defined for every remaining run and      *)
(* build_bitvector returns a bitvector instead of failing.                  *)
C11_QuantumPositive ==
    (Len(samples) > 0 /\ pc \in {"call_extract", "returned", "raised"}) =>
        /\ res.kind # "ZeroDivisionError"
        /\ T0 > 0

-----------------------------------------------------------------------------
RECURSIVE SumDurations(_, _)
SumDurations(rs, i) ==
    IF i > Len(rs) THEN 0 ELSE rs[i][2] + SumDurations(rs, i + 1)

NoLevelChange(smp) == \A i \in 1..Len(smp) : smp[i][2] = smp[1][2]

(* C12: for every non-empty sample sequence the durations of the runs      *)
(* returned by read_trace sum to the last timestamp minus the first, and a  *)
(* trace with no level change yields exactly one run.                       *)
C12_DurationsSum ==
    (pc = "returned" /\ Len(samples) > 0) =>
        /\ SumDurations(runs, 1) = samples[Len(samples)][1] - samples[1][1]
        /\ NoLevelChange(samples) => Len(runs) = 1

C12_Witness ==
    /\ pc = "returned"
    /\ Len(runs) = 3
    /\ \A i \in 1..2 : runs[i][2] > 1

-----------------------------------------------------------------------------
(* build_bitvector on every run list of up to MaxRuns runs of alternating   *)
(* level, with durations of a few ticks or TrimFactor times as many; the    *)
(* final run may have the duration 0 that read_trace gives it               *)

MaxRuns == 3
MaxDur == 3

Durations == (1..MaxDur) \cup {TrimFactor * d : d \in 1..MaxDur}

RunLists ==
    UNION {
        {[i \in 1..n |-> <<(first + i) % 2, d[i]>>] :
            first \in 0..1,
            d \in {e \in [1..n -> Durations \cup {0}] :
                       \A i \in 1..(n - 1) : e[i] > 0}}
        : n \in 1..MaxRuns}

InitBuild ==
    /\ NoMain
    /\ samples = <<>>
    /\ pc = "call_build"
    /\ runs \in RunLists
    /\ whole_bitvector = <<>>
    /\ T0 = 0
    /\ min_idle = DefaultMinIdle
    /\ synth = NoSynth

SpecBuild == InitBuild /\ [][CallBuild]_vars

Built == pc = "call_extract"

\* the index of the first run of duration >= 20 x T0, 0 if there is none
FirstIdle(rs, q) ==
    IF \E i \in 1..Len(rs) : rs[i][2] >= TrimFactor * q
    THEN CHOOSE i \in 1..Len(rs) :
             /\ rs[i][2] >= TrimFactor * q
             /\ \A j \in 1..(i - 1) : rs[j][2] < TrimFactor * q
    ELSE 0

RECURSIVE SumRounds(_, _, _, _)
SumRounds(rs, q, from, to) ==
    IF from > to THEN 0
    ELSE Round(rs[from][2], q) + SumRounds(rs, q, from + 1, to)

(* C13 as stated: the length of the returned bitvector is the sum of        *)
(* round(duration / T0) over each run of the run list given to              *)
(* build_bitvector (where T0 > 0, so that every term is defined).          *)
C13_AsStated ==
    (Built /\ T0 > 0) =>
        Len(whole_bitvector) = SumRounds(runs, T0, 1, Len(runs))

(* C13: the length of the bitvector build_bitvector returns is the sum of   *)
(* round(duration / T0) over each run left after the idle trim, exactly.    *)
C13_LengthIsSum ==
    Built =>
        Len(whole_bitvector) =
            SumRounds(runs, T0, FirstIdle(runs, T0) + 1, Len(runs))

C13_Witness ==
    /\ Built
    /\ FirstIdle(runs, T0) > 0
    /\ \E i \in (FirstIdle(runs, T0) + 1)..Len(runs) :
           /\ Round(runs[i][2], T0) * T0 # runs[i][2]
           /\ Round(runs[i][2], T0) > 0
    /\ Len(whole_bitvector) > 0

\* bit x (from 1) of bv lies in the expansion of run k of rs, the runs from
\* index `from` on being laid out one after the other
InExpansionOf(rs, q, from, k, x) ==
    /\ x > SumRounds(rs, q, from, k - 1)
    /\ x <= SumRounds(rs, q, from, k)

(* C16: build_bitvector expands exactly the runs that follow the first run  *)
(* (of either level) of duration >= 20 x T0, dropping that run and every    *)
(* run before it; if no run reaches 20 x T0 every run is expanded; the runs *)
(* after the trim point are expanded in order and none of them is dropped.  *)
C16_IdleTrim ==
    Built =>
        LET from == FirstIdle(runs, T0) + 1
        IN  /\ Len(whole_bitvector) = SumRounds(runs, T0, from, Len(runs))
            /\ \A k \in from..Len(runs) :
                   \A x \in 1..Len(whole_bitvector) :
                       InExpansionOf(runs, T0, from, k, x) =>
                           whole_bitvector[x] = runs[k][1]

C16_Witness ==
    /\ Built
    /\ FirstIdle(runs, T0) = 1
    /\ Len(runs) = 3
    /\ runs[3][2] >= TrimFactor * T0
    /\ Len(whole_bitvector) = Round(runs[2][2], T0) + Round(runs[3][2], T0)
    /\ Round(runs[2][2], T0) > 0

-----------------------------------------------------------------------------
(* extract_and_verify run again on a frame it returned: the frame alone     *)
(* or the frame followed by pad '1's                                        *)

Resubmit ==
    /\ pc = "returned"
    /\ synth = NoSynth
    /\ \E pad \in 0..(min_idle + MaxExtraIdle) :
           /\ whole_bitvector' = res.frame \o Rep(1, pad)
           /\ synth' = [kind |-> "again", frame |-> res.frame, pad |-> pad]
    /\ pc' = "call_extract"
    /\ UNCHANGED <<traces, t, runs, T0, frame, count, positions, trace_errors,
                   written, reported, samples, min_idle, res, scan>>

SpecAgain == InitExtract /\ [][CallExtract \/ Resubmit]_vars

Again == Called /\ synth # NoSynth

(* C14 as stated: extract_and_verify run again on a frame F it returned,    *)
(* F being the whole input, returns exactly F as the single frame.          *)
C14_AsStated ==
    (Again /\ synth.pad = 0) =>
        /\ res.kind = "ok"
        /\ res.frame = synth.frame
        /\ res.count = 1

(* C14: extract_and_verify run again on a frame F it returned, followed by  *)
(* a closing idle run of at least min_idle '1's, returns exactly F as the   *)
(* single frame, at position (0, len(F)); on F followed by fewer '1's (F    *)
(* alone included) it finds no frame.                                       *)
C14_Idempotent ==
    Again =>
        IF synth.pad >= min_idle
        THEN /\ res.kind = "ok"
             /\ res.frame = synth.frame
             /\ res.count = 1
             /\ res.positions = << <<0, Len(synth.frame)>> >>
        ELSE res.kind = "NoFrames"

C14_Witness ==
    /\ Again
    /\ synth.pad = min_idle
    /\ min_idle > 1
    /\ Len(synth.frame) > 2
    /\ \E x \in 1..Len(synth.frame) : synth.frame[x] = 1
    /\ res.kind = "ok"

-----------------------------------------------------------------------------
\* the end of the run of '1's that starts at index e
OnesEnd(bv, e) ==
    CHOOSE j \in e..Len(bv) :
        /\ j = Len(bv) \/ bv[j + 1] = 0
        /\ \A x \in e..(j - 1) : bv[x + 1] = 1

(* C15: for every bitvector and min_idle >= 1, each recorded position       *)
(* (start, end) has start at the first '0' at or after the end of the       *)
(* previous frame's closing idle run (at or after index 0 for the first     *)
(* frame), end at the start of the first run of at least min_idle '1's      *)
(* after start, and start < end; so every frame begins and ends with '0'    *)
(* and contains no run of min_idle or more '1's, and the positions are      *)
(* strictly increasing, do not overlap and are separated by at least        *)
(* min_idle '1's.                                                           *)
C15_Positions ==
    Called =>
        LET bv == whole_bitvector
            sc == ScanFrames(bv, min_idle)
            pos == sc.positions
        IN  /\ res.kind = "ok" => res.positions = pos
            /\ Len(sc.frames) = Len(pos)
            /\ \A k \in 1..Len(pos) :
                 LET s == pos[k][1]
                     e == pos[k][2]
                     from == IF k = 1 THEN 0 ELSE OnesEnd(bv, pos[k - 1][2])
                     f == sc.frames[k]
                 IN  /\ from <= s /\ s < e /\ e < Len(bv)
                     /\ bv[s + 1] = 0
                     /\ \A x \in from..(s - 1) : bv[x + 1] = 1
                     /\ bv[e] = 0 /\ IdleAt(bv, e, min_idle)
                     /\ \A x \in (s + 1)..(e - 1) :
                            ~ (bv[x] = 0 /\ IdleAt(bv, x, min_idle))
                     /\ f = Slice(bv, s, e)
                     /\ f[1] = 0 /\ f[Len(f)] = 0
                     /\ \A x \in 0..(Len(f) - 1) : ~ IdleAt(f, x, min_idle)
                     /\ k > 1 =>
                            /\ pos[k - 1][1] < pos[k - 1][2]
                            /\ pos[k - 1][2] + min_idle <= s
                            /\ \A x \in pos[k - 1][2]..(s - 1) : bv[x + 1] = 1

C15_Witness ==
    /\ Called
    /\ LET pos == ScanFrames(whole_bitvector, min_idle).positions
       IN  /\ Len(pos) = 2
           /\ pos[1][1] > 0
           /\ pos[1][2] - pos[1][1] > 1
           /\ pos[2][1] - pos[1][2] > min_idle

-----------------------------------------------------------------------------
(* extract_and_verify step by step: one action per iteration of the loops   *)
(* of lines 72 and 75 and per exit of each, on every bitvector of up to     *)
(* MaxBits bits; scan holds the locals i, start, frames, positions and the  *)
(* lines the aligner printed                                                *)

\* lines 67-70
ScanEnter ==
    /\ pc = "call_scan"
    /\ scan' = [kind |-> "scan", i |-> 0, start |-> -1, frames |-> <<>>,
                positions |-> <<>>, errors |-> 0, printed |-> <<>>]
    /\ pc' = "outer"
    /\ UNCHANGED <<traces, t, runs, whole_bitvector, T0, frame, count, positions,
                   trace_errors, written, reported, samples, min_idle, res, synth>>

\* one iteration of `while i < n` (line 72) up to the inner loop: a '0' opens
\* a candidate frame (lines 73-74), a '1' is skipped (lines 88-89)
OuterStep ==
    /\ pc = "outer"
    /\ scan.i < Len(whole_bitvector)
    /\ IF whole_bitvector[scan.i + 1] = 0
       THEN scan' = [scan EXCEPT !.start = scan.i] /\ pc' = "inner"
       ELSE scan' = [scan EXCEPT !.i = scan.i + 1] /\ pc' = "outer"
    /\ UNCHANGED <<traces, t, runs, whole_bitvector, T0, frame, count, positions,
                   trace_errors, written, reported, samples, min_idle, res, synth>>

\* line 72, condition false
OuterExit ==
    /\ pc = "outer"
    /\ scan.i >= Len(whole_bitvector)
    /\ pc' = "verify"
    /\ UNCHANGED <<traces, t, runs, whole_bitvector, T0, frame, count, positions,
                   trace_errors, written, reported, samples, min_idle, res, synth,
                   scan>>

\* lines 86-87 without the `i += 1`
InnerStep_ZeroStays ==
    /\ pc = "inner"
    /\ scan.i < Len(whole_bitvector)
    /\ IF whole_bitvector[scan.i + 1] = 1
       THEN LET run_start == scan.i
                j == RunEnd(whole_bitvector, scan.i)
                run_len == j - run_start
            IN  IF run_len >= min_idle
                THEN /\ scan' = [scan EXCEPT
                           !.i = j,
                           !.frames = Append(@, Slice(whole_bitvector,
                                                      scan.start, run_start)),
                           !.positions = Append(@, <<scan.start, run_start>>)]
                     /\ pc' = "outer"
                ELSE scan' = [scan EXCEPT !.i = j] /\ pc' = "inner"
       ELSE scan' = scan /\ pc' = "inner"
    /\ UNCHANGED <<traces, t, runs, whole_bitvector, T0, frame, count, positions,
                   trace_errors, written, reported, samples, min_idle, res, synth>>

\* one iteration of the inner `while i < n` (lines 75-87): a run of '1's is
\* consumed whole (lines 77-80) and closes the frame if it is idle (lines
\* 81-85, break); a '0' is stepped over (lines 86-87)
InnerStep ==
    /\ pc = "inner"
    /\ scan.i < Len(whole_bitvector)
    /\ IF whole_bitvector[scan.i + 1] = 1
       THEN LET run_start == scan.i
                j == RunEnd(whole_bitvector, scan.i)
                run_len == j - run_start
            IN  IF run_len >= min_idle
                THEN /\ scan' = [scan EXCEPT
                           !.i = j,
                           !.frames = Append(@, Slice(whole_bitvector,
                                                      scan.start, run_start)),
                           !.positions = Append(@, <<scan.start, run_start>>)]
                     /\ pc' = "outer"
                ELSE scan' = [scan EXCEPT !.i = j] /\ pc' = "inner"
       ELSE scan' = [scan EXCEPT !.i = scan.i + 1] /\ pc' = "inner"
    /\ UNCHANGED <<traces, t, runs, whole_bitvector, T0, frame, count, positions,
                   trace_errors, written, reported, samples, min_idle, res, synth>>

\* line 75, condition false: the inner loop ends without a break and with it
\* the iteration of the outer loop
InnerExit ==
    /\ pc = "inner"
    /\ scan.i >= Len(whole_bitvector)
    /\ pc' = "outer"
    /\ UNCHANGED <<traces, t, runs, whole_bitvector, T0, frame, count, positions,
                   trace_errors, written, reported, samples, min_idle, res, synth,
                   scan>>

\* lines 91-103 and 107
VerifyStep ==
    /\ pc = "verify"
    /\ LET errors == CountErrors(scan.frames)
       IN  IF Len(scan.frames) = 0
           THEN res' = [kind |-> "NoFrames"] /\ pc' = "raised" /\ scan' = scan
           ELSE IF errors > 0
           THEN res' = res /\ pc' = "diag"
                /\ scan' = [scan EXCEPT !.errors = errors]
           ELSE /\ res' = [kind |-> "ok", frame |-> scan.frames[1],
                           count |-> Len(scan.frames) - errors,
                           positions |-> scan.positions]
                /\ pc' = "returned"
                /\ scan' = scan
    /\ UNCHANGED <<traces, t, runs, whole_bitvector, T0, frame, count, positions,
                   trace_errors, written, reported, samples, min_idle, synth>>

\* lines 104-105
DiagStep ==
    /\ pc = "diag"
    /\ scan' = [scan EXCEPT !.printed =
                   debug_print_frame_and_bitvec(scan.frames[1], whole_bitvector,
                                                scan.positions)]
    /\ res' = [kind |-> "Differ", errors |-> scan.errors]
    /\ pc' = "raised"
    /\ UNCHANGED <<traces, t, runs, whole_bitvector, T0, frame, count, positions,
                   trace_errors, written, reported, samples, min_idle, synth>>

ScanNext ==
    \/ ScanEnter
    \/ OuterStep
    \/ OuterExit
    \/ InnerStep
    \/ InnerExit
    \/ VerifyStep
    \/ DiagStep

InitScan ==
    /\ NoMain
    /\ samples = <<>>
    /\ runs = <<>>
    /\ whole_bitvector \in BitSeqs(0, MaxBits)
    /\ min_idle \in 1..MaxIdle
    /\ T0 = 0
    /\ pc = "call_scan"
    /\ synth = NoSynth

\* the function runs to its end: no step of it waits for anything
SpecScan == InitScan /\ [][ScanNext]_vars /\ WF_vars(ScanNext)

Scanning == pc \in {"outer", "inner"}

(* C17: the frame scan is a single left-to-right pass that always           *)
(* terminates: for every bitvector and min_idle the index i never           *)
(* decreases, is strictly greater after every iteration of the outer loop   *)
(* (scanning for a '0') and of the inner loop (frame open), and the scan    *)
(* ends with i at the bitvector's length, after which extract_and_verify    *)
(* returns or raises.                                                       *)
C17_ScanTerminates ==
    /\ [][Scanning /\ scan' # scan => scan'.i >= scan.i]_vars
    /\ [][InnerStep => scan'.i > scan.i]_vars
    /\ [][pc = "outer" /\ pc' = "outer" /\ scan' # scan =>
              scan'.i > scan.i]_vars
    /\ [][pc = "inner" /\ pc' = "outer" => scan'.i > scan.start]_vars
    /\ [](pc = "inner" => scan.start <= scan.i)
    /\ [](pc \in {"verify", "diag", "returned", "raised"} =>
              scan.i = Len(whole_bitvector))
    /\ [](Called => res = extract_and_verify(whole_bitvector, min_idle))
    /\ <>Called

C17_Witness ==
    /\ Called
    /\ scan.i = Len(whole_bitvector)
    /\ Len(scan.frames) = 1
    /\ scan.positions[1][1] > 0
    /\ \E x \in 1..Len(scan.frames[1]) : scan.frames[1][x] = 1

-----------------------------------------------------------------------------
AlignerRan == Len(scan.printed) > 0

Mismatching == {k \in 2..Len(scan.frames) : scan.frames[k] # scan.frames[1]}

(* C18: the aligner runs exactly when verification found at least one       *)
(* mismatching frame, before the error propagates, and the line it prints   *)
(* for a recorded frame is marked DIFF exactly when that frame differs from *)
(* the reference (first) frame, so that every failed verification shows at  *)
(* least one DIFF line.                                                     *)
C18_MarkersAgree ==
    /\ pc = "diag" => Mismatching # {} /\ ~ AlignerRan /\ res = NoRes
    /\ Called =>
        /\ AlignerRan <=> Mismatching # {}
        /\ AlignerRan <=> res.kind = "Differ"
        /\ AlignerRan =>
              /\ Len(scan.printed) = Len(scan.frames)
              /\ \A k \in 1..Len(scan.frames) :
                     scan.printed[k][2] = "DIFF" <=> k \in Mismatching
              /\ \E k \in 1..Len(scan.frames) : scan.printed[k][2] = "DIFF"

====
